---- MODULE Spec2Model ----
(***************************************************************************)
(* A model of src/services/getEditsForFileRename.ts: the edits computed    *)
(* for the imports, reference directives and tsconfig "files" entries of a *)
(* project when a file or directory is renamed.                            *)
(*                                                                         *)
(* A string is a sequence of one-character strings, so that prefix and     *)
(* suffix tests, extension stripping and path normalisation are computed   *)
(* character by character as the code computes them.  The JavaScript value *)
(* undefined is the one-element sequence Undefined, which is no string of  *)
(* characters.                                                             *)
(***************************************************************************)
EXTENDS Naturals, Sequences, FiniteSets

VARIABLES
    oldFileOrDirPath,   \* getEditsForFileRename's oldFileOrDirPath
    newFileOrDirPath,   \* getEditsForFileRename's newFileOrDirPath
    configFile,         \* program.getCompilerOptions().configFile
    edits,              \* the calls changeTracker.replaceRangeWithText received
    sourceFile,         \* updateImports' loop variable: the source file visited last
    processed,          \* how many source files updateImports has visited
    pc                  \* "tsconfig" | "imports" | "done" | "fault"

vars == <<oldFileOrDirPath, newFileOrDirPath, configFile, edits, sourceFile, processed, pc>>

-----------------------------------------------------------------------------
(* Strings *)

Undefined == <<"undefined">>

Slash == <<"/">>

Dot == <<".">>

DotDot == <<".", ".">>

Defined(v) == v # Undefined

\* JavaScript truthiness of a string | undefined
Truthy(v) == v # Undefined /\ v # <<>>

startsWith(str, prefix) ==
    /\ Len(str) >= Len(prefix)
    /\ SubSeq(str, 1, Len(prefix)) = prefix

endsWith(str, suffix) ==
    /\ Len(str) >= Len(suffix)
    /\ SubSeq(str, Len(str) - Len(suffix) + 1, Len(str)) = suffix

tryRemovePrefix(str, prefix) ==
    IF startsWith(str, prefix) THEN SubSeq(str, Len(prefix) + 1, Len(str)) ELSE Undefined

tryRemoveSuffix(str, suffix) ==
    IF endsWith(str, suffix) THEN SubSeq(str, 1, Len(str) - Len(suffix)) ELSE Undefined

\* the first defined f[i], in the order of the indices (core's firstDefined)
RECURSIVE FirstDefinedFrom(_, _)
FirstDefinedFrom(results, i) ==
    IF i > Len(results) THEN Undefined
    ELSE IF Defined(results[i]) THEN results[i]
    ELSE FirstDefinedFrom(results, i + 1)

firstDefined(results) == FirstDefinedFrom(results, 1)

\* str.lastIndexOf("/"), 1-based, 0 when there is none
RECURSIVE LastSlashFrom(_, _)
LastSlashFrom(str, i) ==
    IF i = 0 THEN 0
    ELSE IF str[i] = "/" THEN i
    ELSE LastSlashFrom(str, i - 1)

lastIndexOfSlash(str) == LastSlashFrom(str, Len(str))

\* str.split("/"): "" splits into one empty piece
RECURSIVE SplitFrom(_, _, _, _)
SplitFrom(str, i, cur, acc) ==
    IF i > Len(str) THEN Append(acc, cur)
    ELSE IF str[i] = "/" THEN SplitFrom(str, i + 1, <<>>, Append(acc, cur))
    ELSE SplitFrom(str, i + 1, Append(cur, str[i]), acc)

split(str) == SplitFrom(str, 1, <<>>, <<>>)

\* pieces.join("/")
RECURSIVE join(_)
join(pieces) ==
    IF Len(pieces) = 0 THEN <<>>
    ELSE IF Len(pieces) = 1 THEN pieces[1]
    ELSE pieces[1] \o Slash \o join(Tail(pieces))

-----------------------------------------------------------------------------
(* Path primitives of the compiler core (spec 4.1 PathArithmetic) *)

normalizeSlashes(path) ==
    [i \in DOMAIN path |-> IF path[i] = "\\" THEN "/" ELSE path[i]]

\* POSIX paths only: a rooted path starts with one "/"
getRootLength(path) ==
    IF Len(path) > 0 /\ path[1] = "/" THEN 1 ELSE 0

\* /^\.\.?($|[\\/])/
pathIsRelative(path) ==
    \/ path = Dot
    \/ path = DotDot
    \/ startsWith(path, <<".", "/">>)
    \/ startsWith(path, <<".", "\\">>)
    \/ startsWith(path, <<".", ".", "/">>)
    \/ startsWith(path, <<".", ".", "\\">>)

hasTrailingDirectorySeparator(path) ==
    Len(path) > 0 /\ path[Len(path)] = "/"

ensureTrailingDirectorySeparator(path) ==
    IF hasTrailingDirectorySeparator(path) THEN path ELSE path \o Slash

removeTrailingDirectorySeparator(path) ==
    IF hasTrailingDirectorySeparator(path) THEN SubSeq(path, 1, Len(path) - 1) ELSE path

ensurePathIsNonModuleName(path) ==
    IF getRootLength(path) = 0 /\ ~pathIsRelative(path) THEN <<".", "/">> \o path ELSE path

getDirectoryPath(path0) ==
    LET path == normalizeSlashes(path0)
        rootLength == getRootLength(path)
    IN  IF rootLength = Len(path) THEN path
        ELSE LET p == removeTrailingDirectorySeparator(path)
                 cut == lastIndexOfSlash(p) - 1
             IN  SubSeq(p, 1, IF rootLength > cut THEN rootLength ELSE cut)

combinePaths(pathA, pathB) ==
    LET a == IF pathA # <<>> THEN normalizeSlashes(pathA) ELSE pathA
        b == normalizeSlashes(pathB)
    IN  IF pathB = <<>> THEN a
        ELSE IF a = <<>> \/ getRootLength(b) # 0 THEN b
        ELSE ensureTrailingDirectorySeparator(a) \o b

\* [root, ...rest]: the root ("/" or "") and the pieces after it
getPathComponents(path) ==
    LET rootLength == getRootLength(path)
        root == SubSeq(path, 1, rootLength)
        rest == split(SubSeq(path, rootLength + 1, Len(path)))
        kept == IF rest[Len(rest)] = <<>> THEN SubSeq(rest, 1, Len(rest) - 1) ELSE rest
    IN  <<root>> \o kept

RECURSIVE ReduceFrom(_, _, _)
ReduceFrom(components, i, reduced) ==
    IF i > Len(components) THEN reduced
    ELSE LET component == components[i]
         IN  IF component = <<>> \/ component = Dot
                 THEN ReduceFrom(components, i + 1, reduced)
             ELSE IF component = DotDot /\ Len(reduced) > 1 /\ reduced[Len(reduced)] # DotDot
                 THEN ReduceFrom(components, i + 1, SubSeq(reduced, 1, Len(reduced) - 1))
             ELSE IF component = DotDot /\ Len(reduced) = 1 /\ reduced[1] # <<>>
                 THEN ReduceFrom(components, i + 1, reduced)
             ELSE ReduceFrom(components, i + 1, Append(reduced, component))

reducePathComponents(components) ==
    IF Len(components) = 0 THEN <<>> ELSE ReduceFrom(components, 2, <<components[1]>>)

getPathFromPathComponents(pathComponents) ==
    IF Len(pathComponents) = 0 THEN <<>>
    ELSE LET root == IF pathComponents[1] # <<>>
                         THEN ensureTrailingDirectorySeparator(pathComponents[1])
                         ELSE <<>>
         IN  root \o join(Tail(pathComponents))

normalizePath(path0) ==
    LET path == normalizeSlashes(path0)
        normalized == getPathFromPathComponents(reducePathComponents(getPathComponents(path)))
    IN  IF normalized # <<>> /\ hasTrailingDirectorySeparator(path)
            THEN ensureTrailingDirectorySeparator(normalized)
            ELSE normalized

\* the number of leading components two component lists share (case-sensitive host)
RECURSIVE CommonFrom(_, _, _)
CommonFrom(a, b, i) ==
    IF i > Len(a) \/ i > Len(b) \/ a[i] # b[i] THEN i - 1 ELSE CommonFrom(a, b, i + 1)

getPathComponentsRelativeTo(from, to) ==
    LET fromComponents == reducePathComponents(getPathComponents(from))
        toComponents == reducePathComponents(getPathComponents(to))
        start == CommonFrom(fromComponents, toComponents, 1)
    IN  IF start = 0 THEN toComponents
        ELSE <<<<>>>>
             \o [i \in 1..(Len(fromComponents) - start) |-> DotDot]
             \o SubSeq(toComponents, start + 1, Len(toComponents))

\* relativePath(fromDir, toDir) of spec 4.1: no trailing slash, "." for the same directory
getRelativePathFromDirectory(fromDirectory, to) ==
    LET relative == getPathFromPathComponents(getPathComponentsRelativeTo(fromDirectory, to))
    IN  IF relative = <<>> THEN Dot ELSE relative

getRelativePathFromFile(from, to) ==
    ensurePathIsNonModuleName(getRelativePathFromDirectory(getDirectoryPath(from), to))

Dts == <<".", "d", ".", "t", "s">>

Ts == <<".", "t", "s">>

Js == <<".", "j", "s">>

Tsx == <<".", "t", "s", "x">>

Jsx == <<".", "j", "s", "x">>

extensionsToRemove == <<Dts, Ts, Js, Tsx, Jsx>>

fileExtensionIs(path, extension) ==
    Len(path) > Len(extension) /\ endsWith(path, extension)

isAnySupportedFileExtension(path) ==
    \E i \in DOMAIN extensionsToRemove : fileExtensionIs(path, extensionsToRemove[i])

removeFileExtension(path) ==
    LET stripped == firstDefined([i \in DOMAIN extensionsToRemove |->
                        IF fileExtensionIs(path, extensionsToRemove[i])
                            THEN SubSeq(path, 1, Len(path) - Len(extensionsToRemove[i]))
                            ELSE Undefined])
    IN  IF Defined(stripped) THEN stripped ELSE path

resolveTripleslashReference(moduleName, containingFile) ==
    LET basePath == getDirectoryPath(containingFile)
        referencedFileName == IF getRootLength(moduleName) > 0 THEN moduleName
                              ELSE combinePaths(basePath, moduleName)
    IN  normalizePath(referencedFileName)

-----------------------------------------------------------------------------
(* getEditsForFileRename.ts: the path helpers *)

\* what Debug.assertDefined raises; no string of characters
Fault == <<"Debug.assertDefined failed">>

combineNormal(pathA, pathB) == normalizePath(combinePaths(pathA, pathB))

\* a prefix test that forgets the path separator: "/project/foobar/x" would lie in
\* "/project/foo".  C6 tells the code from it.
removeDirectoryPrefixFromPath_anyPrefix(directory, path) ==
    tryRemovePrefix(path, directory)

removeDirectoryPrefixFromPath(directory, path) ==
    LET withoutDir == tryRemovePrefix(path, directory)
    IN  IF withoutDir = Undefined \/ ~startsWith(withoutDir, Slash) THEN Undefined ELSE withoutDir

combinePathsSafe(pathA, pathB) == ensurePathIsNonModuleName(combineNormal(pathA, pathB))

endsWithSomeIndex(path) == endsWith(removeFileExtension(path), <<"i", "n", "d", "e", "x">>)

indexEndings ==
    << <<"/", "p", "a", "c", "k", "a", "g", "e", ".", "j", "s", "o", "n">>,
       <<"/", "i", "n", "d", "e", "x", ".", "j", "s">>,
       <<"/", "i", "n", "d", "e", "x", ".", "j", "s", "x">>,
       <<"/", "i", "n", "d", "e", "x", ".", "t", "s">>,
       <<"/", "i", "n", "d", "e", "x", ".", "d", ".", "t", "s">>,
       <<"/", "i", "n", "d", "e", "x", ".", "t", "s", "x">> >>

tryRemoveIndexOrPackage(name) ==
    firstDefined([i \in DOMAIN indexEndings |-> tryRemoveSuffix(name, indexEndings[i])])

\* Strips file extension and "/index"
pathToImportPath(name) ==
    LET withoutIndex == tryRemoveIndexOrPackage(name)
    IN  IF withoutIndex # Undefined THEN withoutIndex ELSE removeFileExtension(name)

toDirectory(path) ==
    IF isAnySupportedFileExtension(path) THEN getDirectoryPath(path) ELSE path

getRelative(from, to) ==
    ensurePathIsNonModuleName(getRelativePathFromDirectory(toDirectory(from), toDirectory(to)))

importIsInternalToDirectory(oldDir, sourceFilePath, importText) ==
    Defined(removeDirectoryPrefixFromPath(oldDir,
                combineNormal(getDirectoryPath(sourceFilePath), importText)))

-----------------------------------------------------------------------------
(* The two path updaters.  getInternalPathUpdater(old, new) and             *)
(* getExternalPathUpdater(old, new, host) return closures; the operators    *)
(* below are those closures applied, with the captured paths as their first *)
(* two arguments.  The host is case-sensitive.                              *)

internalPathUpdater(oldPath, newPath, sourceFileName, importText) ==
    LET relativeNewDirToOldDir == getRelative(newPath, oldPath)
        relativeOldDirToNewDir == getRelative(oldPath, newPath)
        short == tryRemovePrefix(importText, relativeOldDirToNewDir \o Slash)
    IN  IF relativeNewDirToOldDir = Dot THEN Undefined
        ELSE IF \/ ~pathIsRelative(importText)
                \/ importIsInternalToDirectory(oldPath, sourceFileName, importText)
                \/ importIsInternalToDirectory(newPath, sourceFileName, importText)
            THEN Undefined
        ELSE IF short # Undefined THEN ensurePathIsNonModuleName(short)
        ELSE combineNormal(relativeNewDirToOldDir, importText)

\* an updater that keeps the resolved suffix as it is on disk, for imports too.
\* C4 tells the code from it.
externalPathUpdater_suffixAsResolved(oldPath, newPath, fullPath, importText, isImport) ==
    LET rel == getRelativePathFromFile(oldPath, newPath)
        newImportText ==
            IF pathIsRelative(importText)
                THEN combinePathsSafe(
                         IF Truthy(tryRemoveIndexOrPackage(fullPath)) /\ ~endsWithSomeIndex(importText)
                             THEN importText
                             ELSE getDirectoryPath(importText),
                         rel)
                ELSE newPath
        relToOld == removeDirectoryPrefixFromPath(oldPath, fullPath)
        suffix == relToOld
        removed == tryRemoveSuffix(importText, suffix)
    IN  IF fullPath = oldPath
            THEN IF isImport THEN pathToImportPath(newImportText) ELSE newImportText
        ELSE IF relToOld = Undefined THEN Undefined
        ELSE IF ~pathIsRelative(importText) THEN newPath \o suffix
        ELSE IF removed = Undefined THEN Fault
        ELSE combinePathsSafe(getDirectoryPath(removed), rel) \o suffix

externalPathUpdater(oldPath, newPath, fullPath, importText, isImport) ==
    LET rel == getRelativePathFromFile(oldPath, newPath)
        newImportText ==
            IF pathIsRelative(importText)
                THEN combinePathsSafe(
                         IF Truthy(tryRemoveIndexOrPackage(fullPath)) /\ ~endsWithSomeIndex(importText)
                             THEN importText
                             ELSE getDirectoryPath(importText),
                         rel)
                ELSE newPath
        relToOld == removeDirectoryPrefixFromPath(oldPath, fullPath)
        suffix == IF isImport THEN pathToImportPath(relToOld) ELSE relToOld
        removed == tryRemoveSuffix(importText, suffix)
    IN  IF fullPath = oldPath
            THEN IF isImport THEN pathToImportPath(newImportText) ELSE newImportText
        ELSE IF relToOld = Undefined THEN Undefined
        ELSE IF ~pathIsRelative(importText) THEN newPath \o suffix
        ELSE IF removed = Undefined THEN Fault
        ELSE combinePathsSafe(getDirectoryPath(removed), rel) \o suffix

-----------------------------------------------------------------------------
(* The projects explored: path segments, rename operations, configuration  *)
(* files and source files.                                                 *)

MaxFiles == 2

MaxCandidates == 2

MaxElements == 2

Seg_p == <<"p">>

Seg_s == <<"s">>

Seg_n == <<"n">>

Seg_x == <<"x">>

Seg_y == <<"y">>

Seg_a == <<"a">>

Seg_b == <<"b">>

Seg_q == <<"q">>

Seg_dir == <<"d", "i", "r">>

Seg_dir2 == <<"d", "i", "r", "2">>

Seg_sub == <<"s", "u", "b">>

Seg_old == <<"o", "l", "d">>

Seg_new == <<"n", "e", "w">>

Seg_index == <<"i", "n", "d", "e", "x">>

Seg_outside == <<"o", "u", "t", "s", "i", "d", "e">>

Seg_other == <<"o", "t", "h", "e", "r">>

Abs(segments) == Slash \o join(segments)

RenameOp(old, new) == [old |-> old, new |-> new]

\* (oldFileOrDirPath, newFileOrDirPath): file renames and moves, directory renames
\* and moves, an index file, and renames onto the same path
RenameOps ==
    { RenameOp(Abs(<<Seg_p, Seg_old \o Ts>>), Abs(<<Seg_p, Seg_new \o Ts>>)),
      RenameOp(Abs(<<Seg_p, Seg_old \o Ts>>), Abs(<<Seg_p, Seg_sub, Seg_new \o Ts>>)),
      RenameOp(Abs(<<Seg_p, Seg_old \o Ts>>), Abs(<<Seg_p, Seg_old \o Ts>>)),
      RenameOp(Abs(<<Seg_p, Seg_dir>>), Abs(<<Seg_p, Seg_sub, Seg_dir>>)),
      RenameOp(Abs(<<Seg_p, Seg_dir>>), Abs(<<Seg_p, Seg_dir2>>)),
      RenameOp(Abs(<<Seg_p, Seg_dir>>), Abs(<<Seg_p, Seg_dir>>)),
      RenameOp(Abs(<<Seg_p, Seg_x, Seg_dir>>), Abs(<<Seg_p, Seg_y, Seg_dir>>)),
      RenameOp(Abs(<<Seg_p, Seg_old, Seg_index \o Ts>>), Abs(<<Seg_p, Seg_new, Seg_index \o Ts>>)),
      RenameOp(Abs(<<Seg_p, Seg_index, Seg_index \o Ts>>), Abs(<<Seg_p, Seg_new, Seg_index \o Ts>>)) }

\* every sequence of at most n distinct members of the set S
RECURSIVE SeqsUpTo(_, _)
SeqsUpTo(S, n) ==
    IF n = 0 THEN {<<>>}
    ELSE LET shorter == SeqsUpTo(S, n - 1)
         IN  shorter \cup { Append(q, e) : q \in shorter, e \in S }

Range(f) == { f[i] : i \in DOMAIN f }

Distinct(q) == Cardinality(Range(q)) = Len(q)

StringElement(text) == [isStringLiteral |-> TRUE, text |-> text]

\* an element of the "files" array that is no string literal
OtherElement == [isStringLiteral |-> FALSE, text |-> <<>>]

ConfigElementList ==
    << StringElement(Abs(<<Seg_p, Seg_old \o Ts>>)),
       StringElement(Abs(<<Seg_p, Seg_dir>>)),
       StringElement(Abs(<<Seg_p, Seg_dir, Seg_a \o Ts>>)),
       StringElement(Abs(<<Seg_p, Seg_dir2, Seg_a \o Ts>>)),
       StringElement(Abs(<<Seg_p, Seg_old, Seg_index \o Ts>>)),
       StringElement(Abs(<<Seg_p, Seg_a \o Ts>>)),
       StringElement(join(<<Dot, Seg_old \o Ts>>)),
       OtherElement >>

ConfigElements == Range(ConfigElementList)

NoConfigFile == [present |-> FALSE, files |-> <<>>]

\* a tsconfig.json: its "files" properties, each an array literal of elements or not
ConfigFiles ==
    { NoConfigFile,
      [present |-> TRUE, files |-> <<>>],
      [present |-> TRUE, files |-> <<[isArrayLiteral |-> FALSE, elements |-> <<>>]>>] }
    \cup { [present |-> TRUE, files |-> <<[isArrayLiteral |-> TRUE, elements |-> els]>>] :
             els \in { q \in SeqsUpTo(ConfigElements, MaxElements) : Distinct(q) } }

\* the configuration files of the whole-project runs: none, or one listing every element
BasicConfigFiles ==
    { NoConfigFile,
      [present |-> TRUE, files |-> <<[isArrayLiteral |-> TRUE, elements |-> ConfigElementList]>>] }

\* the module resolver's cache entry for one import: nothing, a resolved module with
\* the locations that failed before it, or only failed lookup locations
NoResolution ==
    [found |-> FALSE, resolvedFileName |-> Undefined, failedLookupLocations |-> <<>>]

Resolution(resolvedFileName, failedLookupLocations) ==
    [found |-> TRUE, resolvedFileName |-> resolvedFileName,
     failedLookupLocations |-> failedLookupLocations]

BaseUrl == Abs(<<Seg_p>>)

\* the locations a resolver looks a module up at, in its order
Lookups(fileName, importText) ==
    LET base == IF pathIsRelative(importText)
                    THEN combineNormal(getDirectoryPath(fileName), importText)
                    ELSE combineNormal(BaseUrl, importText)
        stripped == removeFileExtension(base)
    IN  <<base \o Ts, base \o Dts>>
        \o (IF fileExtensionIs(base, Js) THEN <<stripped \o Ts, stripped \o Dts>> ELSE <<>>)
        \o <<base \o indexEndings[1], base \o indexEndings[4]>>

Resolutions(fileName, importText) ==
    LET locations == Lookups(fileName, importText)
    IN  { NoResolution, Resolution(Undefined, locations) }
        \cup { Resolution(locations[k], SubSeq(locations, 1, k - 1)) : k \in DOMAIN locations }
        \cup { Resolution(Undefined, q) :
                 q \in { r \in SeqsUpTo(Range(locations), MaxCandidates) : Distinct(r) } }

FileNames ==
    { Abs(<<Seg_p, Seg_a \o Ts>>),
      Abs(<<Seg_p, Seg_s, Seg_a \o Ts>>),
      Abs(<<Seg_p, Seg_old \o Ts>>),
      Abs(<<Seg_p, Seg_dir, Seg_a \o Ts>>),
      Abs(<<Seg_p, Seg_dir, Seg_n, Seg_a \o Ts>>),
      Abs(<<Seg_p, Seg_x, Seg_dir, Seg_n, Seg_a \o Ts>>),
      Abs(<<Seg_p, Seg_sub, Seg_dir, Seg_a \o Ts>>),
      Abs(<<Seg_p, Seg_dir2, Seg_a \o Ts>>) }

\* the texts of reference directives and imports: relative, module names and rooted
Texts ==
    { Dot,
      DotDot,
      join(<<Dot, Seg_b>>),
      join(<<Dot, Seg_old>>),
      join(<<Dot, Seg_old \o Js>>),
      join(<<Dot, Seg_old \o Ts>>),
      join(<<Dot, Seg_old, Seg_index>>),
      join(<<Dot, Seg_index>>),
      join(<<Dot, Seg_dir>>),
      join(<<Dot, Seg_dir, Seg_b>>),
      join(<<Dot, Seg_dir, Seg_b \o Js>>),
      join(<<Dot, Seg_dir, Seg_b \o Ts>>),
      join(<<Dot, Seg_dir2, Seg_b>>),
      join(<<Dot, Seg_x, Seg_dir, Seg_b>>),
      join(<<DotDot, Seg_b>>),
      join(<<DotDot, Seg_old>>),
      join(<<DotDot, Seg_outside>>),
      join(<<DotDot, Seg_dir, Seg_b>>),
      join(<<DotDot, Seg_sub, Seg_dir, Seg_b>>),
      join(<<DotDot, Seg_sub, Seg_dir, DotDot, DotDot, Seg_q>>),
      join(<<DotDot, DotDot, Seg_outside>>),
      join(<<DotDot, DotDot, DotDot, Seg_outside>>),
      join(<<Seg_old>>),
      join(<<Seg_dir, Seg_b>>),
      Abs(<<Seg_p, Seg_dir, Seg_b \o Ts>>) }

SourceFile(fileName, referencedFiles, imports, resolvedModules) ==
    [fileName |-> fileName, referencedFiles |-> referencedFiles, imports |-> imports,
     resolvedModules |-> resolvedModules]

NoImports == [t \in {} |-> NoResolution]

\* the loop variable before the first iteration
NoSourceFile == SourceFile(<<>>, <<>>, <<>>, NoImports)

\* a source file with one reference directive, or with one import; resolvedModules[text]
\* is the resolver's cache entry for the import text
SourceFiles ==
    { SourceFile(f, <<t>>, <<>>, NoImports) : f \in FileNames, t \in Texts }
    \cup UNION { { SourceFile(f, <<>>, <<t>>, [x \in {t} |-> r]) : r \in Resolutions(f, t) } :
                 f \in FileNames, t \in Texts }

BasicFileNames ==
    { Abs(<<Seg_p, Seg_a \o Ts>>),
      Abs(<<Seg_p, Seg_old \o Ts>>),
      Abs(<<Seg_p, Seg_dir, Seg_a \o Ts>>),
      Abs(<<Seg_p, Seg_dir, Seg_n, Seg_a \o Ts>>) }

BasicTexts ==
    { DotDot,
      join(<<Dot, Seg_b>>),
      join(<<Dot, Seg_old>>),
      join(<<Dot, Seg_old \o Js>>),
      join(<<Dot, Seg_dir, Seg_b>>),
      join(<<DotDot, Seg_outside>>),
      join(<<DotDot, DotDot, Seg_outside>>) }

\* program.getSourceFiles() of the whole-project runs: a source file with a reference
\* directive and an import of the same target, resolved at a location the resolver
\* looks at
BasicSourceFiles ==
    { SourceFile(f, <<removeFileExtension(t) \o Ts>>, <<t>>,
                 [x \in {t} |-> Resolution(Lookups(f, t)[k], SubSeq(Lookups(f, t), 1, k - 1))]) :
        f \in BasicFileNames, t \in BasicTexts, k \in {1, 3} }

-----------------------------------------------------------------------------
(* getEditsForFileRename.ts: the orchestration *)

\* one call of changeTracker.replaceRangeWithText: the file, the node whose range is
\* replaced (its kind and position in the file) and the new text
Edit(file, kind, index, newText) ==
    [sourceFile |-> file, kind |-> kind, index |-> index, newText |-> newText]

IsUpdate(e) == e.newText # Undefined

\* the configuration file as the file an edit is made in
TsConfigSourceFile ==
    SourceFile(Abs(<<Seg_p, <<"t", "s", "c", "o", "n", "f", "i", "g", ".", "j", "s", "o", "n">>>>),
               <<>>, <<>>, NoImports)

\* an update of an element that treats it as an import, stripping extensions.
\* C7 tells the code from it.
tsconfigElementUpdated_asImport(oldPath, newPath, element) ==
    IF ~element.isStringLiteral THEN Undefined
    ELSE externalPathUpdater(oldPath, newPath, element.text, element.text, TRUE)

\* lines 19-21: the updated text of one element of a "files" array
tsconfigElementUpdated(oldPath, newPath, element) ==
    IF ~element.isStringLiteral THEN Undefined
    ELSE externalPathUpdater(oldPath, newPath, element.text, element.text, FALSE)

RECURSIVE TsconfigEditsFrom(_, _, _, _)
TsconfigEditsFrom(config, oldPath, newPath, p) ==
    IF p > Len(config.files) THEN <<>>
    ELSE LET property == config.files[p]
             here == IF ~property.isArrayLiteral THEN <<>>
                     ELSE SelectSeq([i \in DOMAIN property.elements |->
                                        Edit(TsConfigSourceFile, "config", <<p, i>>,
                                             tsconfigElementUpdated(oldPath, newPath,
                                                                    property.elements[i]))],
                                    IsUpdate)
         IN  here \o TsconfigEditsFrom(config, oldPath, newPath, p + 1)

\* the edits updateTsconfigFiles hands to the change tracker
updateTsconfigFiles(config, oldPath, newPath) ==
    IF ~config.present THEN <<>> ELSE TsconfigEditsFrom(config, oldPath, newPath, 1)

\* the edits updateImportsWorker hands to the change tracker; the two callbacks are
\* functions on the texts of the file
updateImportsWorker(file, updateRef, updateImport) ==
    SelectSeq([i \in DOMAIN file.referencedFiles |->
                  Edit(file, "reference", i, updateRef[file.referencedFiles[i]])],
              IsUpdate)
    \o SelectSeq([i \in DOMAIN file.imports |->
                     Edit(file, "import", i, updateImport[file.imports[i]])],
                 IsUpdate)

\* lines 31-32
isMovedFile(oldPath, newPath, fileName) ==
    \/ fileName = oldPath
    \/ Defined(removeDirectoryPrefixFromPath(oldPath, fileName))
    \/ fileName = newPath
    \/ Defined(removeDirectoryPrefixFromPath(newPath, fileName))

\* a candidate list that keeps the failed lookup locations of a resolved module.
\* C10 tells the code from it.
importCandidates_failedLookupsToo(resolved) ==
    resolved.failedLookupLocations
    \o (IF resolved.resolvedFileName # Undefined THEN <<resolved.resolvedFileName>> ELSE <<>>)

\* line 44: resolved.resolvedModule ? [resolvedFileName] : resolved.failedLookupLocations
importCandidates(resolved) ==
    IF resolved.resolvedFileName # Undefined
        THEN <<resolved.resolvedFileName>>
        ELSE resolved.failedLookupLocations

\* lines 40-45: the import callback for a file that is not moved
updateExternalImport(oldPath, newPath, file, importText) ==
    LET resolved == file.resolvedModules[importText]
        paths == importCandidates(resolved)
    IN  IF ~resolved.found THEN Undefined
        ELSE firstDefined([k \in DOMAIN paths |->
                 externalPathUpdater(oldPath, newPath, paths[k], importText, TRUE)])

\* line 39: the reference callback for a file that is not moved
updateExternalReference(oldPath, newPath, file, referenceText) ==
    externalPathUpdater(oldPath, newPath,
                        resolveTripleslashReference(referenceText, file.fileName),
                        referenceText, FALSE)

\* lines 30-46: the edits of one iteration of updateImports' loop
updateImports(oldPath, newPath, file) ==
    IF isMovedFile(oldPath, newPath, file.fileName)
        THEN updateImportsWorker(file,
                 [referenceText \in Range(file.referencedFiles) |->
                     internalPathUpdater(oldPath, newPath, file.fileName, referenceText)],
                 [importText \in Range(file.imports) |->
                     internalPathUpdater(oldPath, newPath, file.fileName, importText)])
        ELSE updateImportsWorker(file,
                 [referenceText \in Range(file.referencedFiles) |->
                     updateExternalReference(oldPath, newPath, file, referenceText)],
                 [importText \in Range(file.imports) |->
                     updateExternalImport(oldPath, newPath, file, importText)])

Faulted(newEdits) == \E i \in DOMAIN newEdits : newEdits[i].newText = Fault

-----------------------------------------------------------------------------
(* The state machine: one run of getEditsForFileRename.  The change tracker *)
(* receives the tsconfig edits, then the edits of each source file in the   *)
(* program's order; a failed assertion ends the run with no result.         *)

InitWith(configs) ==
    /\ \E op \in RenameOps :
          /\ oldFileOrDirPath = op.old
          /\ newFileOrDirPath = op.new
    /\ configFile \in configs
    /\ edits = <<>>
    /\ sourceFile = NoSourceFile
    /\ processed = 0
    /\ pc = "tsconfig"

Init == InitWith(BasicConfigFiles)

Deliver(newEdits, nextProcessed, nextPc) ==
    IF Faulted(newEdits)
        THEN /\ edits' = <<>>
             /\ pc' = "fault"
             /\ processed' = nextProcessed
        ELSE /\ edits' = edits \o newEdits
             /\ pc' = nextPc
             /\ processed' = nextProcessed

UpdateTsconfigFiles ==
    /\ pc = "tsconfig"
    /\ Deliver(updateTsconfigFiles(configFile, oldFileOrDirPath, newFileOrDirPath),
               processed, "imports")
    /\ UNCHANGED <<oldFileOrDirPath, newFileOrDirPath, configFile, sourceFile>>

UpdateImportsOf(sourceFiles, limit) ==
    /\ pc = "imports"
    /\ processed < limit
    /\ \E next \in sourceFiles :
          /\ sourceFile' = next
          /\ Deliver(updateImports(oldFileOrDirPath, newFileOrDirPath, next),
                     processed + 1, "imports")
    /\ UNCHANGED <<oldFileOrDirPath, newFileOrDirPath, configFile>>

UpdateImports == UpdateImportsOf(BasicSourceFiles, MaxFiles)

\* the program has no more source files: ChangeTracker.with returns the changes
Return ==
    /\ pc = "imports"
    /\ pc' = "done"
    /\ UNCHANGED <<oldFileOrDirPath, newFileOrDirPath, configFile, edits, sourceFile, processed>>

Next == UpdateTsconfigFiles \/ UpdateImports \/ Return

Spec == Init /\ [][Next]_vars

\* projects of one source file, over every cache entry of its import
UpdateImportsOfOneFile == UpdateImportsOf(SourceFiles, 1)

NextFile == UpdateTsconfigFiles \/ UpdateImportsOfOneFile \/ Return

SpecFile == Init /\ [][NextFile]_vars

\* projects without source files, over every configuration file
InitTsconfig == InitWith(ConfigFiles)

NextTsconfig == UpdateTsconfigFiles \/ Return

SpecTsconfig == InitTsconfig /\ [][NextTsconfig]_vars

-----------------------------------------------------------------------------
(* Vocabulary of the properties, stated on paths directly *)

\* path lies strictly inside directory, at a path-separator boundary
StrictlyInside(directory, path) == startsWith(path, directory \o Slash)

AtOrInside(directory, path) == path = directory \/ StrictlyInside(directory, path)

\* the text the edit replaces
OriginalText(e) ==
    IF e.kind = "reference" THEN e.sourceFile.referencedFiles[e.index]
    ELSE IF e.kind = "import" THEN e.sourceFile.imports[e.index]
    ELSE configFile.files[e.index[1]].elements[e.index[2]].text

InSourceFile(e) == e.kind \in {"reference", "import"}

\* the edit is in a file that is moved: at or inside the old or the new path
InMovingFile(e) ==
    /\ InSourceFile(e)
    /\ \/ AtOrInside(oldFileOrDirPath, e.sourceFile.fileName)
       \/ AtOrInside(newFileOrDirPath, e.sourceFile.fileName)

InOtherFile(e) == InSourceFile(e) /\ ~InMovingFile(e)

\* the rename moves a directory
DirectoryMove ==
    /\ ~isAnySupportedFileExtension(oldFileOrDirPath)
    /\ ~isAnySupportedFileExtension(newFileOrDirPath)

\* what a text of a file resolves to when read as a path relative to the file
TargetOf(fileName, text) == combineNormal(getDirectoryPath(fileName), text)

\* the candidate paths of an entry of a file that is not moved, in the order tried
CandidatePaths(e) ==
    IF e.kind = "reference"
        THEN <<resolveTripleslashReference(OriginalText(e), e.sourceFile.fileName)>>
    ELSE LET resolved == e.sourceFile.resolvedModules[OriginalText(e)]
         IN  IF ~resolved.found THEN <<>>
             ELSE IF resolved.resolvedFileName # Undefined THEN <<resolved.resolvedFileName>>
             ELSE resolved.failedLookupLocations

\* the first candidate at or inside the old path
MatchedCandidate(e) ==
    LET paths == CandidatePaths(e)
        k == CHOOSE i \in DOMAIN paths :
                 /\ AtOrInside(oldFileOrDirPath, paths[i])
                 /\ \A j \in 1..(i - 1) : ~AtOrInside(oldFileOrDirPath, paths[j])
    IN  paths[k]

HasMatch(e) == \E i \in DOMAIN CandidatePaths(e) : AtOrInside(oldFileOrDirPath, CandidatePaths(e)[i])

\* the part of a path beyond the old path
BeyondOld(path) == SubSeq(path, Len(oldFileOrDirPath) + 1, Len(path))

EditSet == Range(edits)

-----------------------------------------------------------------------------
(* The properties *)

\* C1: a rename onto the same path emits no edit, whatever the project.
C1_NoOpRenameEmitsNoEdits ==
    oldFileOrDirPath = newFileOrDirPath => edits = <<>>

\* C2: delta symmetry.  For a directory move and a file strictly inside the old
\* directory, a relative text whose target lies outside the moved subtree is rewritten
\* so that it resolves, from the file's new location, to the path the original text
\* resolved to from the old location.
C2_DeltaSymmetry ==
    \A e \in EditSet :
        LET fileName == e.sourceFile.fileName
            target == TargetOf(fileName, OriginalText(e))
            newFileName == newFileOrDirPath \o BeyondOld(fileName)
        IN  ( /\ InSourceFile(e)
              /\ DirectoryMove
              /\ StrictlyInside(oldFileOrDirPath, fileName)
              /\ pathIsRelative(OriginalText(e))
              /\ ~AtOrInside(oldFileOrDirPath, target) )
            => TargetOf(newFileName, e.newText) = target

\* C3: an entry of a file that is not moved whose relative text resolves exactly to the
\* old path is rewritten to a text that resolves to the new path: to the new path itself
\* for a reference directive, to its module-specifier form for an import.
C3_ExactMatchKeepsTarget ==
    \A e \in EditSet :
        ( /\ InOtherFile(e)
          /\ pathIsRelative(OriginalText(e))
          /\ CandidatePaths(e) = <<oldFileOrDirPath>> )
        => TargetOf(e.sourceFile.fileName, e.newText)
             = IF e.kind = "import" THEN pathToImportPath(newFileOrDirPath)
               ELSE newFileOrDirPath

\* C4, as stated: the replacement of an entry resolving strictly inside the old
\* directory ends with the resolved path's part beyond the old directory, unchanged.
C4_ResolvedSuffixKept ==
    \A e \in EditSet :
        ( /\ InOtherFile(e)
          /\ HasMatch(e)
          /\ StrictlyInside(oldFileOrDirPath, MatchedCandidate(e)) )
        => endsWith(e.newText, BeyondOld(MatchedCandidate(e)))

\* C4, amended: the replacement ends with the part of the resolved path beyond the old
\* directory for a reference directive, and with that part in module-specifier form
\* (index or package ending, or extension, stripped) for an import; a relative original
\* text ends with the same suffix, and the rest of the replacement is the new prefix.
C4_SuffixKeptInWrittenForm ==
    \A e \in EditSet :
        ( /\ InOtherFile(e)
          /\ HasMatch(e)
          /\ StrictlyInside(oldFileOrDirPath, MatchedCandidate(e)) )
        => LET beyond == BeyondOld(MatchedCandidate(e))
               written == IF e.kind = "import" THEN pathToImportPath(beyond) ELSE beyond
           IN  /\ endsWith(e.newText, written)
               /\ pathIsRelative(OriginalText(e)) => endsWith(OriginalText(e), written)
               /\ ~pathIsRelative(OriginalText(e)) => e.newText = newFileOrDirPath \o written

C4_Witness ==
    \E e \in EditSet :
        /\ InOtherFile(e)
        /\ e.kind = "import"
        /\ HasMatch(e)
        /\ StrictlyInside(oldFileOrDirPath, MatchedCandidate(e))
        /\ BeyondOld(MatchedCandidate(e)) # pathToImportPath(BeyondOld(MatchedCandidate(e)))
        /\ pathIsRelative(OriginalText(e))
        /\ e.newText # OriginalText(e)

\* C5: no run ends in a failed assertion.
C5_NoFault == pc # "fault"

\* C6: an entry of a file that is not moved gets an edit only if one of its candidate
\* paths is the old path or lies strictly inside it at a path separator; a path that only
\* shares a prefix with the old path is no match, and an import with no cache entry or
\* no candidate gets none.
C6_EditOnlyForMatchingCandidate ==
    /\ removeDirectoryPrefixFromPath(
           <<"/", "p", "r", "o", "j", "e", "c", "t", "/", "f", "o", "o">>,
           <<"/", "p", "r", "o", "j", "e", "c", "t", "/", "f", "o", "o", "b", "a", "r", "/", "x">>)
         = Undefined
    /\ \A e \in EditSet : InOtherFile(e) => HasMatch(e)

C6_Witness ==
    \E e \in EditSet :
        /\ InOtherFile(e)
        /\ e.kind = "import"
        /\ e.sourceFile.resolvedModules[OriginalText(e)].resolvedFileName = Undefined
        /\ \E i \in DOMAIN CandidatePaths(e) :
              /\ startsWith(CandidatePaths(e)[i], oldFileOrDirPath)
              /\ ~AtOrInside(oldFileOrDirPath, CandidatePaths(e)[i])

\* the edits made to element i of "files" property p
ElementEdits(p, i) == { e \in EditSet : e.kind = "config" /\ e.index = <<p, i>> }

ConfigEdits == { e \in EditSet : e.kind = "config" }

\* C7, as stated: a string element of a "files" array gets an edit exactly when its
\* text is the old path, and the edit's text is the new path.
C7_ConfigEditIffEqualsOld ==
    pc # "tsconfig" =>
        \A p \in DOMAIN configFile.files : \A i \in DOMAIN configFile.files[p].elements :
            LET element == configFile.files[p].elements[i]
            IN  (configFile.files[p].isArrayLiteral /\ element.isStringLiteral)
                => /\ ElementEdits(p, i) # {} <=> element.text = oldFileOrDirPath
                   /\ \A e \in ElementEdits(p, i) : e.newText = newFileOrDirPath

\* C7, amended: a string element of a "files" array gets an edit exactly when its text
\* is the old path or lies strictly inside it; the edit's text is the new path followed
\* by the part of the element's text beyond the old path, nothing stripped.  Elements
\* that are no string literals and properties that are no arrays get no edit.
C7_ConfigEditIffAtOrInsideOld ==
    pc # "tsconfig" =>
        /\ \A e \in ConfigEdits :
              /\ configFile.present
              /\ e.sourceFile = TsConfigSourceFile
              /\ configFile.files[e.index[1]].isArrayLiteral
              /\ configFile.files[e.index[1]].elements[e.index[2]].isStringLiteral
              /\ e.newText = newFileOrDirPath \o BeyondOld(OriginalText(e))
        /\ \A p \in DOMAIN configFile.files : \A i \in DOMAIN configFile.files[p].elements :
              LET element == configFile.files[p].elements[i]
              IN  (configFile.present /\ configFile.files[p].isArrayLiteral
                      /\ element.isStringLiteral)
                  => /\ ElementEdits(p, i) # {} <=> AtOrInside(oldFileOrDirPath, element.text)
                     /\ Cardinality(ElementEdits(p, i)) <= 1

C7_Witness ==
    /\ pc = "done"
    /\ \E e \in ConfigEdits :
          /\ StrictlyInside(oldFileOrDirPath, OriginalText(e))
          /\ e.newText # newFileOrDirPath
    /\ \E p \in DOMAIN configFile.files : \E i \in DOMAIN configFile.files[p].elements :
          /\ configFile.files[p].elements[i].isStringLiteral
          /\ ElementEdits(p, i) = {}

\* C8: every edit changes the text it replaces.
C8_EveryEditChangesText ==
    \A e \in EditSet : e.newText # OriginalText(e)

\* C9: in a directory move, a relative text of a file inside the moved directory that
\* resolves inside the moved directory, or to the moved directory itself from a nested
\* file, gets no edit, whether the file is reported under the old or the new path.
C9_InsideToInsideUntouched ==
    \A e \in EditSet : \A directory \in {oldFileOrDirPath, newFileOrDirPath} :
        LET fileName == e.sourceFile.fileName
            target == TargetOf(fileName, OriginalText(e))
        IN  ~( /\ InSourceFile(e)
               /\ DirectoryMove
               /\ StrictlyInside(directory, fileName)
               /\ pathIsRelative(OriginalText(e))
               /\ \/ StrictlyInside(directory, target)
                  \/ target = directory /\ getDirectoryPath(fileName) # directory )

\* C10: for an import of a file that is not moved, a resolved module is the only path
\* handed to the external path updater; failed lookup locations are tried in their order
\* and the edit's text is the updater's result for the first of them whose result is
\* defined; an import gets at most one edit.
C10_FirstDefinedCandidate ==
    /\ \A e \in EditSet :
          (InOtherFile(e) /\ e.kind = "import") =>
              LET text == OriginalText(e)
                  resolved == e.sourceFile.resolvedModules[text]
                  failed == resolved.failedLookupLocations
                  Updated(path) == externalPathUpdater(oldFileOrDirPath, newFileOrDirPath,
                                                       path, text, TRUE)
              IN  /\ resolved.found
                  /\ e.newText # Undefined
                  /\ resolved.resolvedFileName # Undefined
                        => e.newText = Updated(resolved.resolvedFileName)
                  /\ resolved.resolvedFileName = Undefined
                        => \E k \in DOMAIN failed :
                               /\ e.newText = Updated(failed[k])
                               /\ \A j \in 1..(k - 1) : Updated(failed[j]) = Undefined
    /\ \A i, j \in DOMAIN edits :
          (edits[i].sourceFile = edits[j].sourceFile /\ edits[i].kind = edits[j].kind
              /\ edits[i].index = edits[j].index) => i = j

C10_Witness ==
    \E e \in EditSet :
        /\ InOtherFile(e)
        /\ e.kind = "import"
        /\ LET resolved == e.sourceFile.resolvedModules[OriginalText(e)]
           IN  /\ resolved.resolvedFileName = Undefined
               /\ Len(resolved.failedLookupLocations) >= 2
               /\ ~AtOrInside(oldFileOrDirPath, resolved.failedLookupLocations[1])
               /\ AtOrInside(oldFileOrDirPath, resolved.failedLookupLocations[2])

====
